---- MODULE Spec2Model ----
(***************************************************************************)
(* Model of the ROS 2 <-> serial bridge node (ros2_to_serial_bridge_main): *)
(* construction of ROS2SerialBridge (transporter init, static or dynamic   *)
(* topic mapping), the reader thread, the main spin loop and teardown.     *)
(***************************************************************************)
EXTENDS Integers, Sequences, FiniteSets, TLC

(* ------------------------------ bounds --------------------------------- *)

\* longest sequence carried by a SerialMapping response
MaxLen == 2
\* largest dynamic_serial_mapping_ms tried (in clock ticks)
MaxWait == 2
\* read_poll_ms: how long one Transporter.read may block (in clock ticks)
ReadPollMs == 1
\* frames the peer delivers during one run
MaxFrames == 2
\* subscription callbacks that are ready when spin_some is called
MaxCallbacks == 2
\* the maximum payload length of a frame
MaxPayloadLen == 2
\* the longest run of corrupted bytes between two frames
MaxCorrupt == 2
\* the capacity of the ring buffer
RingCapacity == 3
\* calls of close() on one Transporter
MaxCloses == 2

\* the clock is followed until every negotiation deadline has passed
MaxTime == MaxWait + ReadPollMs + 1

(* ------------------------------ data ----------------------------------- *)

\* topic_id_size_t is uint8_t
TopicIdModulus == 256

TopicNames == {"a", "b"}
TypeNames == {"T"}
\* serial ids carried by a response: the reserved response id and one other
WireIds == {1, 2}
\* direction codes of ros2_serial_msgs::msg::SerialMapping, and a code that is
\* neither of them
DirCodes == {"SERIALTOROS2", "ROS2TOSERIAL", "OTHERCODE"}
\* topic ids of the frames the peer sends
FrameTopics == {1, 2}

Directions == {"SERIAL_TO_ROS2", "ROS2_TO_SERIAL", "UNKNOWN"}

\* ros2_to_serial_bridge::pubsub::TopicMapping(): the default-constructed entry
TopicMappingDefault == [serial_mapping |-> 0, type |-> "", direction |-> "UNKNOWN"]

\* the empty std::map<std::string, TopicMapping>
EmptyMap == [n \in {} |-> TopicMappingDefault]

\* m[key] = value of std::map (inserting or overwriting)
MapPut(m, key, value) == [n \in (DOMAIN m) \cup {key} |-> IF n = key THEN value ELSE m[n]]

SeqsUpTo(S, n) == UNION {[1..k -> S] : k \in 0..n}

\* the SerialMapping messages a topic-1 frame can deserialize to
SerialMappingMsgs ==
    [topic_names : SeqsUpTo(TopicNames, MaxLen),
     serial_mappings : SeqsUpTo(WireIds, MaxLen),
     types : SeqsUpTo(TypeNames, MaxLen),
     direction : SeqsUpTo(DirCodes, MaxLen)]

EmptyMsg == [topic_names |-> <<>>, serial_mappings |-> <<>>, types |-> <<>>, direction |-> <<>>]

(* -------------------- building the table from a response --------------- *)

\* the size test on the received message
SizesDiffer_onlyShorter(m) ==
    \/ Len(m.topic_names) > Len(m.serial_mappings)
    \/ Len(m.topic_names) > Len(m.types)
    \/ Len(m.topic_names) > Len(m.direction)

SizesDiffer(m) ==
    \/ Len(m.topic_names) # Len(m.serial_mappings)
    \/ Len(m.topic_names) # Len(m.types)
    \/ Len(m.topic_names) # Len(m.direction)

\* translation of a direction code; "throw" stands for the runtime_error
DirectionOfCode_defaultsUnknown(code) ==
    IF code = "SERIALTOROS2" THEN "SERIAL_TO_ROS2"
    ELSE IF code = "ROS2TOSERIAL" THEN "ROS2_TO_SERIAL"
    ELSE "UNKNOWN"

DirectionOfCode(code) ==
    IF code = "SERIALTOROS2" THEN "SERIAL_TO_ROS2"
    ELSE IF code = "ROS2TOSERIAL" THEN "ROS2_TO_SERIAL"
    ELSE "throw"

\* the for loop over the entries of the message, from index i with the map
\* built so far; the result is the map, or the error that ended the loop
RECURSIVE MappingLoop(_, _, _)
MappingLoop(m, i, acc) ==
    IF i > Len(m.topic_names) THEN [err |-> "none", map |-> acc]
    ELSE LET d == DirectionOfCode(m.direction[i])
         IN IF d = "throw"
            THEN [err |-> "direction", map |-> EmptyMap]
            ELSE MappingLoop(m, i + 1,
                     MapPut(acc, m.topic_names[i],
                            [serial_mapping |-> m.serial_mappings[i],
                             type |-> m.types[i],
                             direction |-> d]))

\* what dynamically_get_serial_mapping does with a deserialized response
MappingFromResponse(m) ==
    IF SizesDiffer(m)
    THEN [err |-> "size", map |-> EmptyMap]
    ELSE MappingLoop(m, 1, EmptyMap)

\* the outcomes of dynamically_get_serial_mapping once a response has been
\* deserialized, over all responses
ResponseOutcomes == {MappingFromResponse(m) : m \in SerialMappingMsgs}

(* -------------------- building the table from parameters --------------- *)

Absent == "absent"

\* values given to topics.<name>.serial_mapping (an int64_t)
StaticIds == {0, 2, 257}
\* values given to topics.<name>.direction
DirStrings == {"SerialToROS2", "ROS2ToSerial", "Sideways"}

\* what the YAML file says about one topic: nothing at all, or its
\* serial_mapping and type and, each present or absent, its direction and a
\* parameter of another name
TopicConfigs ==
    [configured : {TRUE},
     serial_mapping : StaticIds,
     type : TypeNames,
     direction : DirStrings \cup {Absent},
     other : BOOLEAN]
    \cup
    [configured : {FALSE}, serial_mapping : {0}, type : TypeNames,
     direction : {Absent}, other : {FALSE}]

StaticConfigs == [TopicNames -> TopicConfigs]

Param(name, value) == [name |-> name, value |-> value]

\* the parameters of one topic as list_parameters reports them; a name is the
\* sequence of its dot-separated parts
TopicParams(t, c) ==
    IF ~c.configured THEN <<>>
    ELSE <<Param(<<"topics", t, "serial_mapping">>, c.serial_mapping),
           Param(<<"topics", t, "type">>, c.type)>>
         \o (IF c.direction = Absent THEN <<>>
             ELSE <<Param(<<"topics", t, "direction">>, c.direction)>>)
         \o (IF c.other THEN <<Param(<<"topics", t, "rate">>, "fast")>> ELSE <<>>)

\* all parameters of the node: the top-level ones and those of the topics
ParamList(cfg) ==
    <<Param(<<"device">>, "dev"), Param(<<"diagnostics", "rate", "hz">>, "fast")>>
    \o TopicParams("a", cfg["a"]) \o TopicParams("b", cfg["b"])

\* static_cast<topic_id_size_t>(serial_mapping)
CastTopicId(v) == v % TopicIdModulus

\* translation of a direction string; "throw" stands for the runtime_error
DirectionOfString(s) ==
    IF s = "SerialToROS2" THEN "SERIAL_TO_ROS2"
    ELSE IF s = "ROS2ToSerial" THEN "ROS2_TO_SERIAL"
    ELSE "throw"

\* the loop over list_params_result.names, from index i with the map built so far
RECURSIVE ParamLoop(_, _, _)
ParamLoop(ps, i, acc) ==
    IF i > Len(ps) THEN [err |-> "none", map |-> acc]
    ELSE LET name == ps[i].name
             value == ps[i].value
         IN IF Len(name) - 1 # 2 THEN ParamLoop(ps, i + 1, acc)
            ELSE IF name[1] # "topics" THEN ParamLoop(ps, i + 1, acc)
            ELSE LET topic_name == name[2]
                     param_name == name[3]
                     withEntry == IF topic_name \in DOMAIN acc THEN acc
                                  ELSE MapPut(acc, topic_name, TopicMappingDefault)
                     entry == withEntry[topic_name]
                 IN IF param_name = "serial_mapping"
                    THEN ParamLoop(ps, i + 1,
                           MapPut(withEntry, topic_name,
                                  [entry EXCEPT !.serial_mapping = CastTopicId(value)]))
                    ELSE IF param_name = "type"
                    THEN ParamLoop(ps, i + 1,
                           MapPut(withEntry, topic_name, [entry EXCEPT !.type = value]))
                    ELSE IF param_name = "direction"
                    THEN LET d == DirectionOfString(value)
                         IN IF d = "throw"
                            THEN [err |-> "direction", map |-> EmptyMap]
                            ELSE ParamLoop(ps, i + 1,
                                   MapPut(withEntry, topic_name,
                                          [entry EXCEPT !.direction = d]))
                    ELSE [err |-> "param", map |-> EmptyMap]

\* parse_node_parameters_for_topics on a configuration
MappingFromParameters(cfg) == ParamLoop(ParamList(cfg), 1, EmptyMap)

\* the outcomes of parse_node_parameters_for_topics over all configurations
ParameterOutcomes == {MappingFromParameters(cfg) : cfg \in StaticConfigs}

(* ------------------------------ FrameCodec ----------------------------- *)

\* a byte is a number below 256
ByteModulus == 256

\* the synchronization marker of the stream transport: two bytes
Marker == <<62, 62>>

\* marker, topic id and length precede the payload
HeaderLen == 4

\* topic ids and payload bytes put on the wire; the marker byte is among them
WireTopics == {0, 2, 62}
PayloadBytes == {0, 62, 255}
Payloads == SeqsUpTo(PayloadBytes, MaxPayloadLen)

RECURSIVE SumBytes(_)
SumBytes(bytes) == IF bytes = <<>> THEN 0 ELSE Head(bytes) + SumBytes(Tail(bytes))

\* the checksum covers topic id, length and payload
Checksum(topic_id, len, payload) == (topic_id + len + SumBytes(payload)) % ByteModulus

\* the length field of a frame that carries payload
LengthField_countsChecksum(payload) == Len(payload) + 1

LengthField(payload) == Len(payload)

\* encoding for the stream transport: marker, topic id, length, payload,
\* trailing checksum
Encode(topic_id, payload) ==
    Marker \o <<topic_id, LengthField(payload)>> \o payload
    \o <<Checksum(topic_id, Len(payload), payload)>>

NoFrame(rest) == [kind |-> "none", topic_id |-> 0, payload |-> <<>>, rest |-> rest]

\* what is thrown away when a located frame fails its check: one byte
ResyncSkip_wholeHeader == HeaderLen

ResyncSkip == 1

\* decoding of the buffered bytes: at most one frame is extracted. Bytes in
\* front of a marker are discarded; a frame that is not yet complete is left
\* where it is; a length above the maximum, or a checksum that does not match,
\* discards one byte and resumes the search for the marker
RECURSIVE Decode(_)
Decode(buf) ==
    IF buf = <<>> THEN NoFrame(<<>>)
    ELSE IF buf[1] # Marker[1] THEN Decode(Tail(buf))
    ELSE IF Len(buf) < 2 THEN NoFrame(buf)
    ELSE IF buf[2] # Marker[2] THEN Decode(Tail(buf))
    ELSE IF Len(buf) < HeaderLen THEN NoFrame(buf)
    ELSE LET topic_id == buf[3]
             len == buf[4]
         IN IF len > MaxPayloadLen
            THEN Decode(SubSeq(buf, ResyncSkip + 1, Len(buf)))
            ELSE IF Len(buf) < HeaderLen + len + 1 THEN NoFrame(buf)
            ELSE LET payload == SubSeq(buf, HeaderLen + 1, HeaderLen + len)
                 IN IF Checksum(topic_id, len, payload) # buf[HeaderLen + len + 1]
                    THEN Decode(SubSeq(buf, ResyncSkip + 1, Len(buf)))
                    ELSE [kind |-> "frame", topic_id |-> topic_id,
                          payload |-> payload,
                          rest |-> SubSeq(buf, HeaderLen + len + 2, Len(buf))]

(* ------------------------------ RingBuffer ----------------------------- *)

\* bytes stored in the ring buffer
RingBytes == {0, 1}

Min(a, b) == IF a < b THEN a ELSE b

\* available(): (write_cursor - read_cursor) mod capacity
Available(rc, wc) == (wc - rc) % RingCapacity

\* the room a write has: the buffer holds at most capacity - 1 bytes
RingFree_wholeCapacity(rc, wc) == RingCapacity - Available(rc, wc)

RingFree(rc, wc) == RingCapacity - 1 - Available(rc, wc)

\* the array after n bytes of bytes were stored from the write cursor on,
\* wrapping at the end of the array
Store(arr, wc, bytes, n) ==
    [i \in 0..(RingCapacity - 1) |->
        IF \E k \in 1..n : (wc + k - 1) % RingCapacity = i
        THEN bytes[CHOOSE k \in 1..n : (wc + k - 1) % RingCapacity = i]
        ELSE arr[i]]

\* the n bytes of the array from the read cursor on, across the wrap seam
Fetch(arr, rc, n) == [k \in 1..n |-> arr[(rc + k - 1) % RingCapacity]]

(* ------------------------------ state ---------------------------------- *)

VARIABLES
    mpc,            \* where the primary thread is (main and the constructor / destructor it runs)
    rpc,            \* where the reader thread is
    tstate,         \* Transporter: "Uninitialized", "Initialized", "Closed"
    dynamic_serial_mapping_ms,
    elapsed,        \* dynamically_get_serial_mapping: system_clock::now() - start, in ticks
    diff_ms,        \* dynamically_get_serial_mapping: diff_ms
    got_response,   \* dynamically_get_serial_mapping: got_response
    readStart,      \* dynamically_get_serial_mapping: elapsed when the read in progress was issued
    channel,        \* frames delivered by the peer and not yet read (topic ids)
    arrived,        \* number of frames delivered so far
    topic_names_and_serialization,  \* the constructor's local map
    ros2_topics,    \* the ROS2Topics object: <<>> (none) or <<map>>
    exit_signal,    \* exit_signal_ has a value
    running,        \* the global run flag
    rclcpp_ok,      \* what rclcpp::ok() returns
    error,          \* the runtime_error that ended the constructor, or "none"
    requests,       \* history: writes issued by the negotiation
    negReads,       \* history: has the negotiation issued a read
    usedStatic,     \* history: parse_node_parameters_for_topics was called
    respInTime,     \* history: a topic-1 frame was delivered before the deadline
    readsAfterCancel,  \* history: reads the reader thread issued after set_value (counted up to 2)
    length,         \* length: the latest read's result (negotiation, then read_thread_func)
    lastDispatch,   \* what the latest ros2_topics_->dispatch did: <<>> (none yet) or <<record>>
    callbacks_run,  \* subscription callbacks run by the spin_some in progress
    writing,        \* Transporter.write calls of subscription callbacks in progress
    msg,            \* the response under test (specification of the table building)
    built,          \* the result for msg: <<>> (not yet) or <<result>>
    topic_id,       \* FrameCodec: the topic id to encode
    payload,        \* FrameCodec: the payload to encode
    wire,           \* FrameCodec: the encoded frame: <<>> (not yet) or <<bytes>>
    decoded,        \* FrameCodec: what decoding wire gave: <<>> (not yet) or <<result>>
    data,           \* RingBuffer: the byte array, indexed from 0
    read_cursor,    \* RingBuffer: read cursor
    write_cursor,   \* RingBuffer: write cursor
    unread,         \* RingBuffer, history: the bytes accepted and not yet read, oldest first
    requested,      \* RingBuffer, history: the length given to the write just done (0 after a read)
    count_written,  \* RingBuffer: what the write just done returned (0 after a read)
    wpc,            \* Transporter.write: "idle", "sending" or "returned"
    write_topic,    \* Transporter.write: topic_id
    write_buffer,   \* Transporter.write: buffer, of length len
    frame,          \* Transporter.write: the encoded frame
    sent,           \* Transporter.write: bytes of the frame the channel has accepted
    channel_error,  \* Transporter.write, history: the channel reported an unrecoverable error
    write_result,   \* Transporter.write: the value returned
    first,          \* stream decoder: the first frame sent
    corrupt,        \* stream decoder: the corrupted bytes that follow it
    second,         \* stream decoder: the frame sent after them
    rx,             \* stream decoder: the bytes buffered and not yet consumed
    returned,       \* stream decoder: the frames the decoder has returned, in order
    fd,             \* Transporter: the descriptor of the channel, NoFd when none is held
    close_results,  \* Transporter, history: what the calls of close() returned, in order
    delivered,      \* subscription callback: <<>> (none yet) or <<topic and size of its message>>
    write_call,     \* subscription callback: the arguments of the writes it made for that message
    write_failed    \* subscription callback, history: transporter->write returned -1 to it

vars == <<mpc, rpc, tstate, dynamic_serial_mapping_ms, elapsed, diff_ms,
          got_response, readStart, channel, arrived,
          topic_names_and_serialization, ros2_topics, exit_signal, running,
          rclcpp_ok, error, requests, negReads, usedStatic, respInTime,
          readsAfterCancel, length, lastDispatch, callbacks_run, writing,
          msg, built, topic_id, payload, wire, decoded,
          data, read_cursor, write_cursor, unread, requested, count_written,
          wpc, write_topic, write_buffer, frame, sent, channel_error,
          write_result, first, corrupt, second, rx, returned,
          fd, close_results, delivered, write_call, write_failed>>

negVars == <<elapsed, diff_ms, got_response, readStart>>
histVars == <<requests, negReads, usedStatic, respInTime, readsAfterCancel>>
codecVars == <<topic_id, payload, wire, decoded>>
ringVars == <<data, read_cursor, write_cursor, unread, requested, count_written>>
writeVars == <<wpc, write_topic, write_buffer, frame, sent, channel_error, write_result>>
streamVars == <<first, corrupt, second, rx, returned>>
pureVars == <<msg, built, codecVars, ringVars, writeVars, streamVars>>
flagVars == <<exit_signal, running, rclcpp_ok>>
closeVars == <<fd, close_results>>
cbVars == <<delivered, write_call, write_failed>>
runVars == <<lastDispatch, callbacks_run, writing, cbVars>>

\* the FrameCodec specification has not started
CodecIdle ==
    /\ topic_id = 0
    /\ payload = <<>>
    /\ wire = <<>>
    /\ decoded = <<>>

\* the RingBuffer as constructed: empty, its array zeroed
RingEmpty ==
    /\ data = [i \in 0..(RingCapacity - 1) |-> 0]
    /\ read_cursor = 0
    /\ write_cursor = 0
    /\ unread = <<>>
    /\ requested = 0
    /\ count_written = 0

\* no Transporter.write of the write specification has been called
WriteIdle ==
    /\ wpc = "idle"
    /\ write_topic = 0
    /\ write_buffer = <<>>
    /\ frame = <<>>
    /\ sent = 0
    /\ channel_error = FALSE
    /\ write_result = 0

Frame(t, p) == [topic_id |-> t, payload |-> p]

\* nothing has been put on the stream
StreamIdle ==
    /\ first = Frame(0, <<>>)
    /\ corrupt = <<>>
    /\ second = Frame(0, <<>>)
    /\ rx = <<>>
    /\ returned = <<>>

\* recv_fd_{-1}, send_fd_{-1}: no descriptor is held
NoFd == -1

\* the descriptor init() has opened
OpenFd == 3

\* the Transporter holds no channel and close() was never called
CloseIdle ==
    /\ fd = NoFd
    /\ close_results = <<>>

\* no subscription callback has run
CallbackIdle ==
    /\ delivered = <<>>
    /\ write_call = <<>>
    /\ write_failed = FALSE

\* the process has ended: main returned, or terminate was called
ProcessEnded == mpc \in {"exit1", "terminated", "done"}

\* the constructor has returned
Constructed == rpc # "none"

Negotiating == mpc \in {"neg_read", "neg_reading"}

Init ==
    /\ mpc = "ctor_params"
    /\ rpc = "none"
    /\ tstate = "Uninitialized"
    /\ dynamic_serial_mapping_ms = 0
    /\ elapsed = 0
    /\ diff_ms = 0
    /\ got_response = FALSE
    /\ readStart = 0
    /\ channel = <<>>
    /\ arrived = 0
    /\ topic_names_and_serialization = EmptyMap
    /\ ros2_topics = <<>>
    /\ exit_signal = FALSE
    /\ running = 1
    /\ rclcpp_ok = TRUE
    /\ error = "none"
    /\ requests = 0
    /\ negReads = FALSE
    /\ usedStatic = FALSE
    /\ respInTime = FALSE
    /\ readsAfterCancel = 0
    /\ length = 0
    /\ lastDispatch = <<>>
    /\ callbacks_run = 0
    /\ writing = 0
    /\ CallbackIdle
    /\ msg = EmptyMsg
    /\ built = <<>>
    /\ CodecIdle
    /\ RingEmpty
    /\ WriteIdle
    /\ StreamIdle
    /\ CloseIdle

(* ------------------------- the Transporter ----------------------------- *)

\* Transporter.write(topic, buffer, len): all of len, or -1
TransporterWriteResults(len) == {len, -1}

\* Transporter.read: a frame of the channel (a positive length and its topic
\* id), 0 when nothing came within the poll interval, or -1; waited is how long
\* the call has been blocking
TransporterReadResults(ch, waited) ==
    (IF ch # <<>>
     THEN {[length |-> 1, topic_ID |-> Head(ch), rest |-> Tail(ch)]}
     ELSE IF waited >= ReadPollMs
     THEN {[length |-> 0, topic_ID |-> 0, rest |-> ch]}
     ELSE {})
    \cup {[length |-> -1, topic_ID |-> 0, rest |-> ch]}

(* ------------------------- the environment ----------------------------- *)

\* the peer delivers a frame on topic t
Arrive(t) ==
    /\ tstate = "Initialized"
    /\ ~ProcessEnded
    /\ arrived < MaxFrames
    /\ channel' = Append(channel, t)
    /\ arrived' = arrived + 1
    /\ respInTime' = (respInTime \/
                       (/\ t = 1
                        /\ mpc \in {"ctor_mapping", "neg_write", "neg_read", "neg_reading"}
                        /\ elapsed < dynamic_serial_mapping_ms))
    /\ UNCHANGED <<mpc, rpc, tstate, dynamic_serial_mapping_ms, negVars,
                   topic_names_and_serialization, ros2_topics, flagVars, error,
                   requests, negReads, usedStatic, readsAfterCancel, length,
                   pureVars, closeVars, runVars>>

\* a millisecond passes; a read in progress returns within the poll interval
Tick ==
    /\ Negotiating
    /\ elapsed < MaxTime
    /\ (mpc = "neg_reading" => elapsed - readStart < ReadPollMs)
    /\ elapsed' = elapsed + 1
    /\ UNCHANGED <<mpc, rpc, tstate, dynamic_serial_mapping_ms, diff_ms,
                   got_response, readStart, channel,
                   arrived, topic_names_and_serialization, ros2_topics, flagVars,
                   error, histVars, length, pureVars, closeVars, runVars>>

\* SIGINT; the flag is read by the loop of main only, so a signal that comes
\* during construction acts as one that comes right after it
signal_handler ==
    /\ Constructed
    /\ ~ProcessEnded
    /\ running = 1
    /\ running' = 0
    /\ UNCHANGED <<mpc, rpc, tstate, dynamic_serial_mapping_ms, negVars,
                   channel, arrived, topic_names_and_serialization, ros2_topics,
                   exit_signal, rclcpp_ok, error, histVars, length, pureVars,
                   closeVars, runVars>>

\* the ROS 2 context is shut down from outside
ContextShutdown ==
    /\ Constructed
    /\ ~ProcessEnded
    /\ rclcpp_ok
    /\ rclcpp_ok' = FALSE
    /\ UNCHANGED <<mpc, rpc, tstate, dynamic_serial_mapping_ms, negVars,
                   channel, arrived, topic_names_and_serialization, ros2_topics,
                   exit_signal, running, error, histVars, length, pureVars,
                   closeVars, runVars>>

(* ------------------------- the constructor ----------------------------- *)

\* a runtime_error leaves the constructor; main reports it and returns 1
CtorThrow(reason) ==
    /\ mpc' = "exit1"
    /\ error' = reason

\* the get_parameter calls of the constructor
CtorParams ==
    /\ mpc = "ctor_params"
    /\ \E allPresent \in BOOLEAN, d \in 0..MaxWait :
          IF allPresent
          THEN /\ dynamic_serial_mapping_ms' = d
               /\ mpc' = "ctor_init"
               /\ UNCHANGED error
          ELSE /\ CtorThrow("parameter")
               /\ UNCHANGED dynamic_serial_mapping_ms
    /\ UNCHANGED <<rpc, tstate, negVars, channel, arrived,
                   topic_names_and_serialization, ros2_topics, flagVars,
                   histVars, length, pureVars, closeVars, runVars>>

\* init() returns 0 on success and -1 on error
InitResults == {0, -1}

\* if (transporter_->init() < 0)
InitFailed_ignored(r) == FALSE

InitFailed(r) == r < 0

\* what init() returning r does to the Transporter: on success the channel
\* is open; a failed init leaves the Transporter Uninitialized
InitEffect(r) ==
    /\ tstate' = IF r = 0 THEN "Initialized" ELSE tstate
    /\ fd' = IF r = 0 THEN OpenFd ELSE fd

\* transporter_->init()
CtorInit ==
    /\ mpc = "ctor_init"
    /\ \E r \in InitResults :
          /\ InitEffect(r)
          /\ IF InitFailed(r)
             THEN CtorThrow("init")
             ELSE /\ mpc' = "ctor_mapping"
                  /\ UNCHANGED error
    /\ UNCHANGED <<rpc, dynamic_serial_mapping_ms, negVars, channel, arrived,
                   topic_names_and_serialization, ros2_topics, flagVars,
                   histVars, length, pureVars, close_results, runVars>>

\* if (dynamic_serial_mapping_ms > 0)
CtorMapping ==
    /\ mpc = "ctor_mapping"
    /\ mpc' = IF dynamic_serial_mapping_ms > 0 THEN "neg_write" ELSE "ctor_static"
    /\ UNCHANGED <<rpc, tstate, dynamic_serial_mapping_ms, negVars, channel,
                   arrived, topic_names_and_serialization, ros2_topics, flagVars,
                   error, histVars, length, pureVars, closeVars, runVars>>

\* topic_names_and_serialization = parse_node_parameters_for_topics()
CtorStatic ==
    /\ mpc = "ctor_static"
    /\ usedStatic' = TRUE
    /\ \E res \in ParameterOutcomes :
          IF res.err = "none"
          THEN /\ topic_names_and_serialization' = res.map
               /\ mpc' = "ctor_topics"
               /\ UNCHANGED error
          ELSE /\ CtorThrow(res.err)
               /\ UNCHANGED topic_names_and_serialization
    /\ UNCHANGED <<rpc, tstate, dynamic_serial_mapping_ms, negVars, channel,
                   arrived, ros2_topics, flagVars, requests, negReads, respInTime,
                   readsAfterCancel, length, pureVars, closeVars, runVars>>

\* a runtime_error leaves dynamically_get_serial_mapping, and with it the
\* constructor
NegThrow_fallsBackToStatic(reason) ==
    /\ mpc' = "ctor_static"
    /\ error' = reason

NegThrow(reason) == CtorThrow(reason)

\* the request of dynamically_get_serial_mapping: an Empty message on topic 0;
\* then start = system_clock::now()
NegWrite ==
    /\ mpc = "neg_write"
    /\ requests' = requests + 1
    /\ \E r \in TransporterWriteResults(0) :
          IF r < 0
          THEN /\ NegThrow("write")
               /\ UNCHANGED negVars
          ELSE /\ mpc' = "neg_read"
               /\ elapsed' = 0
               /\ diff_ms' = 0
               /\ got_response' = FALSE
               /\ UNCHANGED <<readStart, error>>
    /\ UNCHANGED <<rpc, tstate, dynamic_serial_mapping_ms, channel, arrived,
                   topic_names_and_serialization, ros2_topics, flagVars,
                   negReads, usedStatic, respInTime, readsAfterCancel, length,
                   pureVars, closeVars, runVars>>

\* the negotiation calls transporter_->read
NegReadBegin ==
    /\ mpc = "neg_read"
    /\ mpc' = "neg_reading"
    /\ readStart' = elapsed
    /\ negReads' = TRUE
    /\ UNCHANGED <<rpc, tstate, dynamic_serial_mapping_ms, elapsed, diff_ms,
                   got_response, channel, arrived, topic_names_and_serialization,
                   ros2_topics, flagVars, error, requests, usedStatic, respInTime,
                   readsAfterCancel, length, pureVars, closeVars, runVars>>

\* where the do ... while loop goes back to: its body starts at the read
LoopTarget_resendsRequest == "neg_write"

LoopTarget == "neg_read"

\* while (diff_ms.count() < wait_ms)
LoopContinues_noDeadline(d, wait_ms) == TRUE

LoopContinues(d, wait_ms) == d < wait_ms

\* if (topic_ID == 1)
IsResponse_anyTopic(topic_ID) == TRUE

IsResponse(topic_ID) == topic_ID = 1

\* if ((length = transporter_->read(...)) > 0)
NegHasFrame_nonZero(len) == len # 0

NegHasFrame(len) == len > 0

\* break: a response leaves the loop without the loop test
BreakOnResponse_missing == FALSE

BreakOnResponse == TRUE

\* after the loop, a response having been received: the size check and the
\* building of the map; d is diff_ms and len the result of the last read. The
\* locals are gone when the map is returned
NegChecks(d, len) ==
    /\ got_response' = TRUE
    /\ \E res \in ResponseOutcomes :
          IF res.err = "none"
          THEN /\ topic_names_and_serialization' = res.map
               /\ mpc' = "ctor_topics"
               /\ elapsed' = 0
               /\ diff_ms' = 0
               /\ readStart' = 0
               /\ length' = 0
               /\ UNCHANGED error
          ELSE /\ NegThrow(res.err)
               /\ diff_ms' = d
               /\ length' = len
               /\ UNCHANGED <<elapsed, readStart, topic_names_and_serialization>>

\* the end of the loop body and the loop test; got is got_response and len the
\* result of the read
NegLoopTest(got, len) ==
    LET d == elapsed
    IN IF LoopContinues(d, dynamic_serial_mapping_ms)
       THEN /\ mpc' = LoopTarget
            /\ diff_ms' = d
            /\ got_response' = got
            /\ length' = len
            /\ UNCHANGED <<elapsed, readStart, topic_names_and_serialization, error>>
       ELSE IF ~got
       THEN /\ NegThrow("timeout")
            /\ diff_ms' = d
            /\ got_response' = got
            /\ length' = len
            /\ UNCHANGED <<elapsed, readStart, topic_names_and_serialization>>
       ELSE NegChecks(d, len)

\* the read returns: the rest of the loop body, the loop test and, once the
\* loop is left, the checks and the building of the map. topic_ID is declared
\* without a value, so after a read that gave no frame it holds any value
NegReadEnd ==
    /\ mpc = "neg_reading"
    /\ \E r \in TransporterReadResults(channel, elapsed - readStart),
          indeterminate \in FrameTopics :
        LET topic_ID == IF r.length > 0 THEN r.topic_ID ELSE indeterminate
        IN /\ channel' = r.rest
           /\ IF NegHasFrame(r.length) /\ IsResponse(topic_ID)
              THEN \* cdr_deserialize
                   \/ /\ NegThrow("deserialize")
                      /\ length' = r.length
                      /\ UNCHANGED <<negVars, topic_names_and_serialization>>
                   \/ IF BreakOnResponse
                      THEN NegChecks(diff_ms, r.length)
                      ELSE NegLoopTest(TRUE, r.length)
              ELSE NegLoopTest(got_response, r.length)
    /\ UNCHANGED <<rpc, tstate, dynamic_serial_mapping_ms, arrived, ros2_topics,
                   flagVars, histVars, pureVars, closeVars, runVars>>

\* ros2_topics_ = std::make_unique<ROS2Topics>(this, topic_names_and_serialization, ...)
CtorTopics ==
    /\ mpc = "ctor_topics"
    /\ ros2_topics' = <<topic_names_and_serialization>>
    /\ mpc' = "ctor_thread"
    /\ UNCHANGED <<rpc, tstate, dynamic_serial_mapping_ms, negVars, channel,
                   arrived, topic_names_and_serialization, flagVars, error,
                   histVars, length, pureVars, closeVars, runVars>>

\* starting the thread is the last statement of the constructor: main goes on
AfterThreadStart_thenMapping == "ctor_mapping"

AfterThreadStart == "main_params"

\* read_thread_ = std::thread(&ROS2SerialBridge::read_thread_func, this, future_)
CtorThread ==
    /\ mpc = "ctor_thread"
    /\ rpc' = "r_read"
    /\ mpc' = AfterThreadStart
    /\ UNCHANGED <<tstate, dynamic_serial_mapping_ms, negVars, channel,
                   arrived, topic_names_and_serialization, ros2_topics, flagVars,
                   error, histVars, length, pureVars, closeVars, runVars>>

(* ------------------------- the reader thread --------------------------- *)

\* read_thread_func calls transporter_->read
ReaderReadBegin ==
    /\ rpc = "r_read"
    /\ ~ProcessEnded
    /\ rpc' = "r_reading"
    /\ readsAfterCancel' = IF exit_signal /\ readsAfterCancel < 2
                           THEN readsAfterCancel + 1
                           ELSE readsAfterCancel
    /\ UNCHANGED <<mpc, tstate, dynamic_serial_mapping_ms, negVars, channel,
                   arrived, topic_names_and_serialization, ros2_topics, flagVars,
                   error, requests, negReads, usedStatic, respInTime, length,
                   pureVars, closeVars, runVars>>

\* the serial ids ROS2Topics has a publisher for: those of the entries of
\* direction SERIAL_TO_ROS2
PublishIds(table) ==
    {table[n].serial_mapping :
        n \in {k \in DOMAIN table : table[k].direction = "SERIAL_TO_ROS2"}}

\* ROS2Topics::dispatch: a frame whose id has a publisher is deserialized and
\* published, any other frame is dropped
Dispatch_publishesAll(table, topic_ID) == "published"

Dispatch(table, topic_ID) ==
    IF topic_ID \in PublishIds(table) THEN "published" ELSE "dropped"

\* if ((length = transporter_->read(...)) > 0)
IsDispatched(len) == len > 0

\* the read returns; a positive length is handed to ros2_topics_->dispatch
ReaderReadEnd ==
    /\ rpc = "r_reading"
    /\ ~ProcessEnded
    /\ \E r \in TransporterReadResults(channel, ReadPollMs) :
          /\ channel' = r.rest
          /\ length' = r.length
          /\ lastDispatch' =
                IF IsDispatched(r.length)
                THEN <<[topic_ID |-> r.topic_ID,
                        outcome |-> Dispatch(ros2_topics[1], r.topic_ID)]>>
                ELSE lastDispatch
    /\ rpc' = "r_check"
    /\ UNCHANGED <<mpc, tstate, dynamic_serial_mapping_ms, negVars, arrived,
                   topic_names_and_serialization, ros2_topics, flagVars, error,
                   histVars, pureVars, closeVars, callbacks_run, writing,
                   cbVars>>

\* local_future.wait_for(0) returns ready: exit_signal_ has a value
FutureReady_onlyAfterData == exit_signal /\ length > 0

FutureReady == exit_signal

\* status = local_future.wait_for(0); while (status == timeout)
ReaderCheck ==
    /\ rpc = "r_check"
    /\ ~ProcessEnded
    /\ rpc' = IF FutureReady THEN "exited" ELSE "r_read"
    /\ UNCHANGED <<mpc, tstate, dynamic_serial_mapping_ms, negVars, channel,
                   arrived, topic_names_and_serialization, ros2_topics, flagVars,
                   error, histVars, length, pureVars, closeVars, runVars>>

(* ------------------------------ main ----------------------------------- *)

\* node->get_parameter("write_sleep_ms", ...): the runtime_error thrown when it
\* is missing is caught by nobody
MainParams ==
    /\ mpc = "main_params"
    /\ \E present \in BOOLEAN :
          mpc' = IF present THEN "main_loop" ELSE "terminated"
    /\ UNCHANGED <<rpc, tstate, dynamic_serial_mapping_ms, negVars, channel,
                   arrived, topic_names_and_serialization, ros2_topics, flagVars,
                   error, histVars, length, pureVars, closeVars, runVars>>

\* while (rclcpp::ok() && running != 0)
MainLoop ==
    /\ mpc = "main_loop"
    /\ mpc' = IF rclcpp_ok /\ running # 0 THEN "spin" ELSE "main_exit"
    /\ UNCHANGED <<rpc, tstate, dynamic_serial_mapping_ms, negVars, channel,
                   arrived, topic_names_and_serialization, ros2_topics, flagVars,
                   error, histVars, length, pureVars, closeVars, runVars>>

\* the topics ROS2Topics has a subscription for: the entries of direction
\* ROS2_TO_SERIAL
Subscribed(table) ==
    {n \in DOMAIN table : table[n].direction = "ROS2_TO_SERIAL"}

\* spin_some runs the callbacks on the thread that called it: the next one
\* starts when the one before has returned
AfterCallbackStart_detached == "spin"

AfterCallbackStart == "cb_write"

\* rclcpp::spin_some(node): the next ready subscription callback is run, up
\* to its call of transporter->write; or, none being left, spin_some returns
\* and loop_rate.sleep() follows
SpinSome ==
    /\ mpc = "spin"
    /\ \/ /\ callbacks_run < MaxCallbacks
          /\ Subscribed(ros2_topics[1]) # {}
          /\ callbacks_run' = callbacks_run + 1
          /\ writing' = writing + 1
          /\ mpc' = AfterCallbackStart
       \/ /\ mpc' = "main_loop"
          /\ callbacks_run' = 0
          /\ UNCHANGED writing
    /\ UNCHANGED <<rpc, tstate, dynamic_serial_mapping_ms, negVars, channel,
                   arrived, topic_names_and_serialization, ros2_topics, flagVars,
                   error, histVars, length, pureVars, closeVars, lastDispatch,
                   cbVars>>

\* transporter->write(mapping, ...) returns to the callback, which ignores
\* the result and returns to spin_some
CallbackWrite ==
    /\ mpc = "cb_write"
    /\ \E r \in TransporterWriteResults(1) :
          /\ writing' = writing - 1
          /\ mpc' = "spin"
    /\ UNCHANGED <<rpc, tstate, dynamic_serial_mapping_ms, negVars, channel,
                   arrived, topic_names_and_serialization, ros2_topics, flagVars,
                   error, histVars, length, pureVars, closeVars, lastDispatch,
                   callbacks_run, cbVars>>

\* running = 0; rclcpp::shutdown(); return 0, which destroys the node
MainExit ==
    /\ mpc = "main_exit"
    /\ running' = 0
    /\ rclcpp_ok' = FALSE
    /\ mpc' = "dtor_signal"
    /\ UNCHANGED <<rpc, tstate, dynamic_serial_mapping_ms, negVars, channel,
                   arrived, topic_names_and_serialization, ros2_topics,
                   exit_signal, error, histVars, length, pureVars, closeVars, runVars>>

(* --------------------------- the destructor ---------------------------- *)

\* exit_signal_.set_value()
DtorSignal ==
    /\ mpc = "dtor_signal"
    /\ exit_signal' = TRUE
    /\ mpc' = "dtor_join"
    /\ UNCHANGED <<rpc, tstate, dynamic_serial_mapping_ms, negVars, channel,
                   arrived, topic_names_and_serialization, ros2_topics, running,
                   rclcpp_ok, error, histVars, length, pureVars, closeVars, runVars>>

\* when read_thread_.join() returns
JoinReturns_withoutWaiting == TRUE

JoinReturns == rpc = "exited"

\* read_thread_.join()
DtorJoin ==
    /\ mpc = "dtor_join"
    /\ JoinReturns
    /\ mpc' = "dtor_close"
    /\ UNCHANGED <<rpc, tstate, dynamic_serial_mapping_ms, negVars, channel,
                   arrived, topic_names_and_serialization, ros2_topics, flagVars,
                   error, histVars, length, pureVars, closeVars, runVars>>

\* close() returns 0 on success and -1 on error. The channel is released
\* when one is held; on a Transporter that holds none there is nothing to
\* release, and that is a success as well
CloseResult_failsWhenReleased(f) == IF f = NoFd THEN -1 ELSE 0

CloseResult(f) == 0

\* what close() does to the Transporter
CloseEffect ==
    /\ close_results' = Append(close_results, CloseResult(fd))
    /\ fd' = NoFd
    /\ tstate' = "Closed"

\* transporter_->close()
DtorClose ==
    /\ mpc = "dtor_close"
    /\ CloseEffect
    /\ mpc' = "done"
    /\ UNCHANGED <<rpc, dynamic_serial_mapping_ms, negVars, channel, arrived,
                   topic_names_and_serialization, ros2_topics, flagVars, error,
                   histVars, length, pureVars, runVars>>

(* --------------------------- specifications ---------------------------- *)

CtorStep ==
    \/ CtorParams \/ CtorInit \/ CtorMapping \/ CtorStatic
    \/ NegWrite \/ NegReadBegin \/ NegReadEnd
    \/ CtorTopics \/ CtorThread

MainStep ==
    \/ CtorStep
    \/ MainParams \/ MainLoop \/ SpinSome \/ CallbackWrite \/ MainExit
    \/ DtorSignal \/ DtorJoin \/ DtorClose

ReaderStep == ReaderReadBegin \/ ReaderReadEnd \/ ReaderCheck

Environment ==
    \/ \E t \in FrameTopics : Arrive(t)
    \/ Tick
    \/ signal_handler
    \/ ContextShutdown

Next == MainStep \/ ReaderStep \/ Environment

Spec == Init /\ [][Next]_vars

\* both threads keep running, the clock keeps advancing
FairSpec ==
    /\ Spec
    /\ WF_vars(MainStep)
    /\ WF_vars(ReaderStep)
    /\ WF_vars(Tick)

\* the construction of the bridge alone, up to the start of the reader
\* thread: the constructing thread keeps running, the clock keeps advancing
NextCtor ==
    \/ CtorStep
    \/ \E t \in FrameTopics : Arrive(t)
    \/ Tick

FairCtorSpec ==
    /\ Init
    /\ [][NextCtor]_vars
    /\ WF_vars(CtorStep)
    /\ WF_vars(Tick)

\* the bridge at work, from the return of the constructor on: one topic is
\* configured statically, with serial id 2 and any accepted direction setting
RunConfigs ==
    {cfg \in StaticConfigs :
        /\ cfg["a"].configured
        /\ cfg["a"].serial_mapping = 2
        /\ ~cfg["a"].other
        /\ ~cfg["b"].configured
        /\ MappingFromParameters(cfg).err = "none"}

RunTables == {MappingFromParameters(cfg).map : cfg \in RunConfigs}

\* the state in which the constructor returns when dynamic_serial_mapping_ms
\* is 0 and the parameters give one of RunTables
InitRun ==
    /\ mpc = "main_params"
    /\ rpc = "r_read"
    /\ tstate = "Initialized"
    /\ dynamic_serial_mapping_ms = 0
    /\ elapsed = 0
    /\ diff_ms = 0
    /\ got_response = FALSE
    /\ readStart = 0
    /\ channel = <<>>
    /\ arrived = 0
    /\ topic_names_and_serialization \in RunTables
    /\ ros2_topics = <<topic_names_and_serialization>>
    /\ exit_signal = FALSE
    /\ running = 1
    /\ rclcpp_ok = TRUE
    /\ error = "none"
    /\ requests = 0
    /\ negReads = FALSE
    /\ usedStatic = TRUE
    /\ respInTime = FALSE
    /\ readsAfterCancel = 0
    /\ length = 0
    /\ lastDispatch = <<>>
    /\ callbacks_run = 0
    /\ writing = 0
    /\ CallbackIdle
    /\ msg = EmptyMsg
    /\ built = <<>>
    /\ CodecIdle
    /\ RingEmpty
    /\ WriteIdle
    /\ StreamIdle
    /\ fd = OpenFd
    /\ close_results = <<>>

RunMainStep ==
    \/ MainParams \/ MainLoop \/ SpinSome \/ CallbackWrite \/ MainExit
    \/ DtorSignal \/ DtorJoin \/ DtorClose

NextRun ==
    \/ RunMainStep
    \/ ReaderStep
    \/ \E t \in FrameTopics : Arrive(t)
    \/ signal_handler
    \/ ContextShutdown

\* both threads keep running
FairRunSpec ==
    /\ InitRun
    /\ [][NextRun]_vars
    /\ WF_vars(RunMainStep)
    /\ WF_vars(ReaderStep)

\* the building of the table from a response, on every response
InitMapping ==
    /\ msg \in SerialMappingMsgs
    /\ built = <<>>
    /\ CodecIdle
    /\ RingEmpty
    /\ WriteIdle
    /\ StreamIdle
    /\ CloseIdle
    /\ mpc = "ctor_params"
    /\ rpc = "none"
    /\ tstate = "Uninitialized"
    /\ dynamic_serial_mapping_ms = 0
    /\ elapsed = 0
    /\ diff_ms = 0
    /\ got_response = FALSE
    /\ readStart = 0
    /\ channel = <<>>
    /\ arrived = 0
    /\ topic_names_and_serialization = EmptyMap
    /\ ros2_topics = <<>>
    /\ exit_signal = FALSE
    /\ running = 1
    /\ rclcpp_ok = TRUE
    /\ error = "none"
    /\ requests = 0
    /\ negReads = FALSE
    /\ usedStatic = FALSE
    /\ respInTime = FALSE
    /\ readsAfterCancel = 0
    /\ length = 0
    /\ lastDispatch = <<>>
    /\ callbacks_run = 0
    /\ writing = 0
    /\ CallbackIdle

BuildMapping ==
    /\ built = <<>>
    /\ built' = <<MappingFromResponse(msg)>>
    /\ UNCHANGED <<mpc, rpc, tstate, dynamic_serial_mapping_ms, negVars,
                   channel, arrived, topic_names_and_serialization, ros2_topics,
                   flagVars, error, histVars, length, msg, runVars, codecVars,
                   ringVars, writeVars, streamVars, closeVars>>

NextMapping == BuildMapping

SpecMapping == InitMapping /\ [][NextMapping]_vars

\* the bridge before its construction: the values Init gives to the
\* variables of the bridge
BridgeAtInit ==
    /\ mpc = "ctor_params"
    /\ rpc = "none"
    /\ tstate = "Uninitialized"
    /\ dynamic_serial_mapping_ms = 0
    /\ elapsed = 0
    /\ diff_ms = 0
    /\ got_response = FALSE
    /\ readStart = 0
    /\ channel = <<>>
    /\ arrived = 0
    /\ topic_names_and_serialization = EmptyMap
    /\ ros2_topics = <<>>
    /\ exit_signal = FALSE
    /\ running = 1
    /\ rclcpp_ok = TRUE
    /\ error = "none"
    /\ requests = 0
    /\ negReads = FALSE
    /\ usedStatic = FALSE
    /\ respInTime = FALSE
    /\ readsAfterCancel = 0
    /\ length = 0
    /\ lastDispatch = <<>>
    /\ callbacks_run = 0
    /\ writing = 0
    /\ CallbackIdle
    /\ msg = EmptyMsg
    /\ built = <<>>

bridgeVars ==
    <<mpc, rpc, tstate, dynamic_serial_mapping_ms, negVars, channel, arrived,
      topic_names_and_serialization, ros2_topics, flagVars, error, histVars,
      length, runVars, msg, built>>

\* FrameCodec on every topic id and payload: encoding, then decoding
InitCodec ==
    /\ BridgeAtInit
    /\ CloseIdle
    /\ topic_id \in WireTopics
    /\ payload \in Payloads
    /\ wire = <<>>
    /\ decoded = <<>>
    /\ RingEmpty
    /\ WriteIdle
    /\ StreamIdle

EncodeFrame ==
    /\ wire = <<>>
    /\ wire' = <<Encode(topic_id, payload)>>
    /\ UNCHANGED <<bridgeVars, closeVars, topic_id, payload, decoded, ringVars,
                   writeVars, streamVars>>

DecodeFrame ==
    /\ wire # <<>>
    /\ decoded = <<>>
    /\ decoded' = <<Decode(wire[1])>>
    /\ UNCHANGED <<bridgeVars, closeVars, topic_id, payload, wire, ringVars,
                   writeVars, streamVars>>

NextCodec == EncodeFrame \/ DecodeFrame

SpecCodec == InitCodec /\ [][NextCodec]_vars

\* the RingBuffer under every sequence of writes and reads
InitRing ==
    /\ BridgeAtInit
    /\ CloseIdle
    /\ CodecIdle
    /\ RingEmpty
    /\ WriteIdle
    /\ StreamIdle

\* write(bytes) -> count_written
RingWrite ==
    \E bytes \in SeqsUpTo(RingBytes, RingCapacity) :
        LET n == Min(Len(bytes), RingFree(read_cursor, write_cursor))
        IN /\ data' = Store(data, write_cursor, bytes, n)
           /\ write_cursor' = (write_cursor + n) % RingCapacity
           /\ count_written' = n
           /\ requested' = Len(bytes)
           /\ unread' = unread \o SubSeq(bytes, 1, n)
           /\ UNCHANGED <<bridgeVars, closeVars, codecVars, writeVars, streamVars,
                          read_cursor>>

\* read(max_len) -> bytes
RingRead ==
    \E max_len \in 1..RingCapacity :
        LET n == Min(max_len, Available(read_cursor, write_cursor))
        IN /\ read_cursor' = (read_cursor + n) % RingCapacity
           /\ unread' = SubSeq(unread, n + 1, Len(unread))
           /\ requested' = 0
           /\ count_written' = 0
           /\ UNCHANGED <<bridgeVars, closeVars, codecVars, writeVars, streamVars,
                          data, write_cursor>>

NextRing == RingWrite \/ RingRead

SpecRing == InitRing /\ [][NextRing]_vars

\* Transporter.write on every topic id and buffer, the channel accepting
\* the bytes in any portions
InitWrite ==
    /\ BridgeAtInit
    /\ CloseIdle
    /\ CodecIdle
    /\ RingEmpty
    /\ wpc = "idle"
    /\ write_topic \in WireTopics
    /\ write_buffer \in Payloads
    /\ frame = <<>>
    /\ sent = 0
    /\ channel_error = FALSE
    /\ write_result = 0
    /\ StreamIdle

\* what the channel answers to a write of n bytes: the number of bytes it
\* accepted, which may be less than n or none, or -1 for an unrecoverable error
ChannelAccepts(n) == (0..n) \cup {-1}

\* the write loop ends when the channel has accepted every byte
WriteComplete_onProgress(done, total) == done > 0

WriteComplete(done, total) == done = total

\* write(topic_id, buffer, len) is called: the frame is encoded
WriteCall ==
    /\ wpc = "idle"
    /\ frame' = Encode(write_topic, write_buffer)
    /\ sent' = 0
    /\ wpc' = "sending"
    /\ UNCHANGED <<bridgeVars, closeVars, codecVars, ringVars, streamVars, write_topic,
                   write_buffer, channel_error, write_result>>

\* the bytes not yet accepted are handed to the channel; write returns -1
\* when the channel fails, len when the whole frame has been accepted, and
\* tries again otherwise
WriteAttempt ==
    /\ wpc = "sending"
    /\ \E c \in ChannelAccepts(Len(frame) - sent) :
          IF c < 0
          THEN /\ channel_error' = TRUE
               /\ write_result' = -1
               /\ wpc' = "returned"
               /\ UNCHANGED sent
          ELSE /\ sent' = sent + c
               /\ IF WriteComplete(sent + c, Len(frame))
                  THEN /\ write_result' = Len(write_buffer)
                       /\ wpc' = "returned"
                  ELSE UNCHANGED <<write_result, wpc>>
               /\ UNCHANGED channel_error
    /\ UNCHANGED <<bridgeVars, closeVars, codecVars, ringVars, streamVars, write_topic,
                   write_buffer, frame>>

NextWrite == WriteCall \/ WriteAttempt

SpecWrite == InitWrite /\ [][NextWrite]_vars

\* the callback of a subscription on every bus message: the tables are those
\* the parameters can give that have a subscription, and spin_some is running
CallbackTables ==
    {o.map : o \in {r \in ParameterOutcomes : r.err = "none" /\ Subscribed(r.map) # {}}}

InitCallback ==
    /\ mpc = "spin"
    /\ rpc = "r_read"
    /\ tstate = "Initialized"
    /\ dynamic_serial_mapping_ms = 0
    /\ elapsed = 0
    /\ diff_ms = 0
    /\ got_response = FALSE
    /\ readStart = 0
    /\ channel = <<>>
    /\ arrived = 0
    /\ topic_names_and_serialization \in CallbackTables
    /\ ros2_topics = <<topic_names_and_serialization>>
    /\ exit_signal = FALSE
    /\ running = 1
    /\ rclcpp_ok = TRUE
    /\ error = "none"
    /\ requests = 0
    /\ negReads = FALSE
    /\ usedStatic = TRUE
    /\ respInTime = FALSE
    /\ readsAfterCancel = 0
    /\ length = 0
    /\ lastDispatch = <<>>
    /\ callbacks_run = 0
    /\ writing = 0
    /\ CallbackIdle
    /\ msg = EmptyMsg
    /\ built = <<>>
    /\ CodecIdle
    /\ RingEmpty
    /\ WriteIdle
    /\ StreamIdle
    /\ fd = OpenFd
    /\ close_results = <<>>

\* the serialized sizes of the bus messages that are delivered
MsgSizes == {1, 2}

\* the serial id ROS2Topics creates the subscription of a table entry with
SubscriptionMapping(table, name) == table[name].serial_mapping

\* transporter->write(mapping, data_buffer, scdr.getSerializedDataLength()):
\* the topic id and the length the callback passes
CallbackWriteArgs_withHeader(mapping, headlen, serialized_size) ==
    [topic_id |-> mapping, len |-> headlen + serialized_size]

CallbackWriteArgs(mapping, headlen, serialized_size) ==
    [topic_id |-> mapping, len |-> serialized_size]

\* the callback of the subscription for name, run by spin_some on a message
\* of the given size, from its first statement to its return: the message is
\* serialized, written with one call of transporter->write, and the buffer is
\* freed; the callback returns nothing, whatever write returned
SubscriptionCallback ==
    /\ mpc = "spin"
    /\ \E name \in Subscribed(ros2_topics[1]), serialized_size \in MsgSizes :
          LET mapping == SubscriptionMapping(ros2_topics[1], name)
              args == CallbackWriteArgs(mapping, HeaderLen, serialized_size)
          IN /\ delivered' = <<[name |-> name, size |-> serialized_size]>>
             /\ write_call' = <<args>>
             /\ \E r \in TransporterWriteResults(args.len) :
                   write_failed' = (write_failed \/ r < 0)
    /\ UNCHANGED <<mpc, rpc, tstate, dynamic_serial_mapping_ms, negVars, channel,
                   arrived, topic_names_and_serialization, ros2_topics, flagVars,
                   error, histVars, length, pureVars, closeVars, lastDispatch,
                   callbacks_run, writing>>

NextCallback == SubscriptionCallback

SpecCallback == InitCallback /\ [][NextCallback]_vars

\* the Transporter through its states: init, writes, and close called up to
\* MaxCloses times by the thread that owns it
InitClose == InitWrite

\* the variables of the bridge other than the state of the Transporter
ownerVars ==
    <<mpc, rpc, dynamic_serial_mapping_ms, negVars, channel, arrived,
      topic_names_and_serialization, ros2_topics, flagVars, error, histVars,
      length, runVars, msg, built>>

\* init()
InitCall ==
    /\ tstate = "Uninitialized"
    /\ \E r \in InitResults : InitEffect(r)
    /\ UNCHANGED <<ownerVars, close_results, codecVars, ringVars, writeVars,
                   streamVars>>

\* a write on the initialized Transporter
WriteStep ==
    /\ tstate = "Initialized"
    /\ NextWrite

\* close(), between two calls of write
CloseCall ==
    /\ tstate # "Uninitialized"
    /\ wpc # "sending"
    /\ Len(close_results) < MaxCloses
    /\ CloseEffect
    /\ UNCHANGED <<ownerVars, codecVars, ringVars, writeVars, streamVars>>

NextClose == InitCall \/ WriteStep \/ CloseCall

SpecClose == InitClose /\ [][NextClose]_vars

\* the stream decoder on a frame, a run of corrupted bytes and another frame
CorruptBytes == {0, 62, 255}
CorruptSpans == SeqsUpTo(CorruptBytes, MaxCorrupt) \ {<<>>}
FirstFrames == {Frame(t, p) : t \in WireTopics, p \in {<<>>, <<62>>}}
SecondFrames == {Frame(t, p) : t \in WireTopics, p \in Payloads}

InitStream ==
    /\ BridgeAtInit
    /\ CloseIdle
    /\ CodecIdle
    /\ RingEmpty
    /\ WriteIdle
    /\ first \in FirstFrames
    /\ corrupt \in CorruptSpans
    /\ second \in SecondFrames
    /\ rx = Encode(first.topic_id, first.payload) \o corrupt
            \o Encode(second.topic_id, second.payload)
    /\ returned = <<>>

\* one call of the decoder that consumes something: it returns a frame, or
\* only discards bytes
DecoderCall ==
    LET r == Decode(rx)
    IN /\ r.kind = "frame" \/ r.rest # rx
       /\ rx' = r.rest
       /\ returned' = IF r.kind = "frame"
                      THEN Append(returned, Frame(r.topic_id, r.payload))
                      ELSE returned
       /\ UNCHANGED <<bridgeVars, closeVars, codecVars, ringVars, writeVars, first,
                      corrupt, second>>

NextStream == DecoderCall

\* the decoder is called as long as there is something to consume
FairStreamSpec ==
    /\ InitStream
    /\ [][NextStream]_vars
    /\ WF_vars(DecoderCall)

(* ------------------------------ claims --------------------------------- *)

\* the negotiation has returned a map
NegSucceeded ==
    /\ requests > 0
    /\ error = "none"
    /\ mpc \notin {"neg_write", "neg_read", "neg_reading"}

\* C1: teardown signals cancellation, then joins the reader thread, then
\* closes the Transporter; close is never called, and the Transporter never
\* closed, while the reader thread has not finished
C1_CloseAfterJoin ==
    /\ mpc \in {"dtor_join", "dtor_close", "done"} => exit_signal
    /\ (mpc = "dtor_close" \/ tstate = "Closed") => rpc = "exited"

C1_Witness ==
    /\ mpc = "done"
    /\ tstate = "Closed"
    /\ rpc = "exited"
    /\ exit_signal

C2_Safe ==
    /\ Negotiating => diff_ms < dynamic_serial_mapping_ms
    /\ error = "timeout" =>
          /\ mpc = "exit1"
          /\ diff_ms >= dynamic_serial_mapping_ms
          /\ ~got_response
          /\ topic_names_and_serialization = EmptyMap
          /\ ros2_topics = <<>>

MsgLens ==
    {Len(msg.topic_names), Len(msg.serial_mappings), Len(msg.types), Len(msg.direction)}

\* C3: a response whose four sequences are not all of one length is rejected
\* as malformed, whichever sequence differs, and no map is returned
C3_MismatchRejected ==
    (built # <<>> /\ Cardinality(MsgLens) > 1) =>
        /\ built[1].err = "size"
        /\ built[1].map = EmptyMap

\* only the direction sequence differs, and it is the longer one
C3_Witness ==
    /\ built # <<>>
    /\ Len(msg.topic_names) = 1
    /\ Len(msg.serial_mappings) = 1
    /\ Len(msg.types) = 1
    /\ Len(msg.direction) = 2
    /\ built[1].err = "size"
    /\ built[1].map = EmptyMap

\* C4: with dynamic negotiation enabled, a failed negotiation (or any other
\* runtime_error of the constructor) aborts startup: the static table is not
\* used, no ROS2Topics is constructed and no reader thread is started
C4_FailedNegotiationAborts ==
    (dynamic_serial_mapping_ms > 0 /\ error # "none") =>
        /\ mpc = "exit1"
        /\ ~usedStatic
        /\ ros2_topics = <<>>
        /\ rpc = "none"

C4_Witness ==
    /\ dynamic_serial_mapping_ms > 0
    /\ error = "direction"
    /\ requests = 1
    /\ mpc = "exit1"
    /\ ros2_topics = <<>>
    /\ rpc = "none"

\* C5: once Transporter.read has returned a negative result to the reader
\* thread, the reader thread issues no further read
C5_ReaderStopsOnError == ~(rpc = "r_reading" /\ length < 0)

\* the table handed to ROS2Topics
HandedTable == ros2_topics[1]

\* C6: the table handed to ROS2Topics has no entry whose serial id is 0 or 1
C6_NoReservedIds ==
    ros2_topics # <<>> =>
        \A n \in DOMAIN HandedTable : HandedTable[n].serial_mapping \notin {0, 1}

\* C7: no two entries of the table handed to ROS2Topics have the same serial id
C7_UniqueIds ==
    ros2_topics # <<>> =>
        \A n1, n2 \in DOMAIN HandedTable :
            n1 # n2 => HandedTable[n1].serial_mapping # HandedTable[n2].serial_mapping

\* the entries of the map built from the response under test
BuiltMap == built[1].map

\* the response under test has a direction code that is neither SERIALTOROS2
\* nor ROS2TOSERIAL
HasUnknownCode ==
    \E i \in DOMAIN msg.direction :
        msg.direction[i] \notin {"SERIALTOROS2", "ROS2TOSERIAL"}

\* C8: a response with a direction code that is neither SERIALTOROS2 nor
\* ROS2TOSERIAL is rejected (for its direction, when its sizes agree) and no
\* map, not even a partial one, is returned; a returned map holds only the
\* directions SERIAL_TO_ROS2 and ROS2_TO_SERIAL
C8_UnknownCodeRejected ==
    built # <<>> =>
        /\ HasUnknownCode => (built[1].err # "none" /\ BuiltMap = EmptyMap)
        /\ (HasUnknownCode /\ Cardinality(MsgLens) = 1) => built[1].err = "direction"
        /\ \A n \in DOMAIN BuiltMap :
              BuiltMap[n].direction \in {"SERIAL_TO_ROS2", "ROS2_TO_SERIAL"}

\* the first entry is good, the second has the unknown code
C8_Witness ==
    /\ built # <<>>
    /\ Cardinality(MsgLens) = 1
    /\ Len(msg.direction) = 2
    /\ msg.direction[1] = "ROS2TOSERIAL"
    /\ msg.direction[2] = "OTHERCODE"
    /\ built[1].err = "direction"
    /\ BuiltMap = EmptyMap

\* C9: the table handed to ROS2Topics has no entry of direction UNKNOWN
C9_NoUnknownDirection ==
    ros2_topics # <<>> =>
        \A n \in DOMAIN HandedTable : HandedTable[n].direction # "UNKNOWN"

\* C10: a negotiation writes its request exactly once, before its first read,
\* and never again while it waits
C10_SingleRequest ==
    /\ requests <= 1
    /\ negReads => requests = 1
    /\ Negotiating => requests = 1

\* two frames that are no response have been read, and the wait goes on
C10_Witness ==
    /\ Negotiating
    /\ requests = 1
    /\ negReads
    /\ arrived = 2
    /\ channel = <<>>
    /\ diff_ms > 0

\* frames the negotiation has read and discarded so far; until the reader
\* thread is started the negotiation alone takes frames off the channel
NegDiscarded == arrived - Len(channel) - (IF got_response THEN 1 ELSE 0)

\* a read of the negotiation returns the frame at the head of the channel
NegTakesFrame ==
    /\ mpc = "neg_reading"
    /\ channel # <<>>
    /\ channel' = Tail(channel)

\* C11 as stated, for one discarded frame: when a response that arrived
\* before the deadline waits behind a frame of another topic, reading that
\* frame leaves the negotiation waiting, so that the response is accepted
C11_ResponseBehindDiscardAccepted ==
    [][(/\ NegTakesFrame
        /\ Head(channel) # 1
        /\ respInTime
        /\ Len(channel) > 1
        /\ channel[2] = 1) => mpc' = "neg_read"]_vars

\* reading a frame of another topic does not end the wait by itself and adds
\* nothing to the table: the deadline test follows, as after any read
C11_Discard ==
    [][(NegTakesFrame /\ Head(channel) # 1) =>
          /\ ~got_response'
          /\ topic_names_and_serialization' = EmptyMap
          /\ ros2_topics' = <<>>
          /\ IF elapsed < dynamic_serial_mapping_ms
             THEN mpc' = "neg_read" /\ error' = "none"
             ELSE mpc' = "exit1" /\ error' = "timeout"]_vars

\* a frame of topic 1 that a read returns is taken as the response, however
\* many frames were discarded before it
C11_Accept ==
    [][(NegTakesFrame /\ Head(channel) = 1) =>
          \/ got_response' /\ mpc' \in {"ctor_topics", "exit1"}
          \/ error' = "deserialize"]_vars

\* C11 amended: frames of other topics are discarded and the deadline test
\* follows each of them; a topic-1 frame returned by a read is accepted after
\* any number of discarded frames
C11_DiscardThenAccept == C11_Discard /\ C11_Accept

\* a response has been accepted after a frame of another topic was discarded
C11_Witness ==
    /\ mpc = "ctor_topics"
    /\ got_response
    /\ NegDiscarded = 1
    /\ error = "none"
    /\ topic_names_and_serialization # EmptyMap

\* C12: once exit_signal_ has a value the reader thread issues at most one
\* more read, and, its reads returning within the poll interval, it ends
C12_ReaderExitsPromptly ==
    /\ [](readsAfterCancel <= 1)
    /\ (exit_signal ~> rpc = "exited")

\* the value was set right after the loop test, one more read was issued and
\* the thread has ended
C12_Witness ==
    /\ exit_signal
    /\ readsAfterCancel = 1
    /\ rpc = "exited"

\* the primary thread is inside Transporter.write or Transporter.read, or
\* about to call one of them
MainUsesTransporter == mpc \in {"neg_write", "neg_read", "neg_reading"}

\* C13: no read and no write is issued, and no reader thread runs, unless
\* init() has returned success; when init() fails the constructor throws, and
\* no write, read, negotiation, ROS2Topics or reader thread follows
C13_InitFirst ==
    /\ (MainUsesTransporter \/ requests > 0 \/ negReads \/ rpc # "none")
          => tstate # "Uninitialized"
    /\ tstate = "Uninitialized" =>
          mpc \in {"ctor_params", "ctor_init", "exit1"}
    /\ error = "init" =>
          /\ mpc = "exit1"
          /\ tstate = "Uninitialized"
          /\ requests = 0
          /\ ~negReads
          /\ ~usedStatic
          /\ ros2_topics = <<>>
          /\ rpc = "none"
          /\ channel = <<>>

\* init() has failed and the process has returned 1
C13_Witness ==
    /\ error = "init"
    /\ mpc = "exit1"
    /\ tstate = "Uninitialized"
    /\ requests = 0
    /\ rpc = "none"

\* the threads that are inside Transporter.read
InsideRead ==
    (IF mpc = "neg_reading" THEN {"primary"} ELSE {})
    \cup (IF rpc = "r_reading" THEN {"reader"} ELSE {})

\* C14: at most one thread is inside Transporter.read; once the reader thread
\* has been started the primary thread neither negotiates nor reads
C14_SingleReader ==
    /\ Cardinality(InsideRead) <= 1
    /\ rpc # "none" => ~MainUsesTransporter
    /\ MainUsesTransporter => rpc = "none"

\* the negotiation has read, and now the reader thread is inside read
C14_Witness ==
    /\ negReads
    /\ got_response
    /\ rpc = "r_reading"
    /\ mpc = "spin"
    /\ InsideRead = {"reader"}

\* the Transporter.write calls in progress: the request of the negotiation
\* and the writes of subscription callbacks
WritesInProgress == writing + (IF mpc = "neg_write" THEN 1 ELSE 0)

\* C15: at most one Transporter.write is in progress, and the primary thread
\* is the one inside it: the request is written by the constructor before the
\* reader thread exists, and a callback's write by spin_some in main
C15_WritesSerialized ==
    /\ WritesInProgress <= 1
    /\ writing > 0 => mpc = "cb_write"
    /\ mpc = "neg_write" => rpc = "none"

\* a callback's write is in progress while the reader thread is inside read
C15_Witness ==
    /\ mpc = "cb_write"
    /\ writing = 1
    /\ callbacks_run = 2
    /\ rpc = "r_reading"

\* C19: decoding the encoding of a topic id and a payload gives back that
\* topic id and that payload, and leaves no byte behind
C19_RoundTrip ==
    decoded # <<>> =>
        /\ decoded[1].kind = "frame"
        /\ decoded[1].topic_id = topic_id
        /\ decoded[1].payload = payload
        /\ decoded[1].rest = <<>>

\* a payload of the maximum length, made of marker bytes, on the topic id
\* that equals the marker byte
C19_Witness ==
    /\ decoded # <<>>
    /\ topic_id = 62
    /\ Len(payload) = MaxPayloadLen
    /\ \A i \in DOMAIN payload : payload[i] = 62
    /\ decoded[1].payload = payload

\* the serial ids that have an entry in the table handed to ROS2Topics
MappedIds == {HandedTable[n].serial_mapping : n \in DOMAIN HandedTable}

\* C17: a frame whose serial id has no entry in the table is dropped by
\* dispatch: nothing is published, no error is recorded, and the reader
\* thread goes on with its loop, which it leaves only on cancellation
C17_UnknownIdDropped ==
    /\ lastDispatch # <<>> =>
          /\ lastDispatch[1].topic_ID \notin MappedIds
                => lastDispatch[1].outcome = "dropped"
          /\ lastDispatch[1].outcome = "published"
                => lastDispatch[1].topic_ID \in MappedIds
          /\ error = "none"
    /\ rpc = "exited" => exit_signal

\* a frame with id 1 was dropped by a bridge that publishes the frames with
\* id 2, and the reader thread has issued its next read
C17_Witness ==
    /\ lastDispatch = <<[topic_ID |-> 1, outcome |-> "dropped"]>>
    /\ MappedIds = {2}
    /\ PublishIds(HandedTable) = {2}
    /\ rpc = "r_reading"
    /\ ~exit_signal
    /\ error = "none"

\* C18: the ring buffer never holds more than capacity - 1 bytes, its count
\* is the number of bytes accepted and not yet read, those bytes are still in
\* the array in their order, and a write returns fewer bytes than it was given
\* only when it has filled the buffer
C18_RingBounded ==
    /\ Available(read_cursor, write_cursor) <= RingCapacity - 1
    /\ Len(unread) = Available(read_cursor, write_cursor)
    /\ Len(unread) <= RingCapacity - 1
    /\ Fetch(data, read_cursor, Len(unread)) = unread
    /\ count_written <= requested
    /\ count_written < requested =>
          Available(read_cursor, write_cursor) = RingCapacity - 1

\* a write across the wrap seam to a buffer that had room for one byte only
C18_Witness ==
    /\ requested = 2
    /\ count_written = 1
    /\ write_cursor = 0
    /\ read_cursor = 1
    /\ Len(unread) = RingCapacity - 1

\* C16: Transporter.write returns only the full length, after the channel has
\* accepted every byte of the frame, or -1, after the channel has reported an
\* unrecoverable error; it never returns with a part of the frame accepted
\* and no error
C16_AllOrError ==
    wpc = "returned" =>
        /\ write_result \in TransporterWriteResults(Len(write_buffer))
        /\ write_result >= 0 => (sent = Len(frame) /\ ~channel_error)
        /\ write_result = -1 => channel_error

\* a write of the longest buffer has returned its length
C16_Witness ==
    /\ wpc = "returned"
    /\ Len(write_buffer) = MaxPayloadLen
    /\ write_result = MaxPayloadLen
    /\ sent = Len(frame)

\* the bytes that follow the first frame on the stream
AfterFirst == corrupt \o Encode(second.topic_id, second.payload)

\* position i of AfterFirst starts a false frame that the decoder does not
\* throw away: a marker and a length within the maximum, and the frame either
\* extends beyond the buffered bytes or has a matching checksum
FalseFrameAt(i) ==
    LET buf == AfterFirst
        len == buf[i + 3]
    IN /\ buf[i] = Marker[1]
       /\ buf[i + 1] = Marker[2]
       /\ len <= MaxPayloadLen
       /\ \/ i + HeaderLen + len > Len(buf)
          \/ Checksum(buf[i + 2], len, SubSeq(buf, i + HeaderLen, i + HeaderLen + len - 1))
                = buf[i + HeaderLen + len]

\* a false frame starts inside the corrupted span
HasFalseFrame == \E i \in 1..Len(corrupt) : FalseFrameAt(i)

\* the decoder has nothing more it can consume
DecoderWaits == LET r == Decode(rx) IN r.kind = "none" /\ r.rest = rx

C20_Safe ==
    /\ returned # <<>> => returned[1] = first
    /\ ~HasFalseFrame =>
          /\ Len(returned) <= 2
          /\ Len(returned) = 1 => rx = AfterFirst
          /\ Len(returned) = 2 => (returned[2] = second /\ rx = <<>>)

C22_OneWritePerMessage ==
    /\ Len(write_call) = Len(delivered)
    /\ delivered # <<>> =>
          /\ HandedTable[delivered[1].name].direction = "ROS2_TO_SERIAL"
          /\ write_call[1].topic_id = HandedTable[delivered[1].name].serial_mapping
          /\ write_call[1].len = delivered[1].size

\* two subscriptions with different serial ids: a message of size 2 for
\* topic "b" was written with the id of "b"
C22_Witness ==
    /\ Subscribed(HandedTable) = {"a", "b"}
    /\ HandedTable["a"].serial_mapping # HandedTable["b"].serial_mapping
    /\ delivered = <<[name |-> "b", size |-> 2]>>
    /\ write_call = <<[topic_id |-> HandedTable["b"].serial_mapping, len |-> 2]>>

\* C23: once a Transporter.write of a subscription callback has returned -1,
\* the failure has been reported to main, the owner of the bridge, which
\* learns of failures through the runtime_error it catches
C23_WriteErrorReported == write_failed => error # "none"

\* C24: when the process has ended with running at 0 and the bridge
\* constructed, the reader thread has left its loop and has been joined
C24_ReaderJoinedAtEnd ==
    (ProcessEnded /\ Constructed /\ running = 0) =>
        (exit_signal /\ rpc = "exited")

\* C25: a read of the negotiation that returns a negative result is treated
\* as one that returns no data: no response is recorded and no table is
\* built; the negotiation goes on reading while the time measured after the
\* read is below the timeout, and ends, with the error of a missing response,
\* only when that time has reached the timeout
C25_ReadErrorLikeNoData ==
    (negReads /\ length <= 0 /\ (Negotiating \/ mpc = "exit1")) =>
        /\ ~got_response
        /\ topic_names_and_serialization = EmptyMap
        /\ ros2_topics = <<>>
        /\ rpc = "none"
        /\ Negotiating => (error = "none" /\ diff_ms < dynamic_serial_mapping_ms)
        /\ mpc = "exit1" =>
              (error = "timeout" /\ diff_ms >= dynamic_serial_mapping_ms)

\* a read has failed before the deadline and the next read is in progress
C25_Witness ==
    /\ mpc = "neg_reading"
    /\ length < 0
    /\ elapsed > 0
    /\ diff_ms > 0
    /\ diff_ms < dynamic_serial_mapping_ms
    /\ error = "none"

\* C26: the read that returns the first frame on topic 1 ends the
\* negotiation: the table is returned, or the negotiation fails for the
\* deserialization, the sizes or a direction code of that frame, whatever time
\* is left; the negotiation never reads again once it has a response
C26_FirstResponseDecides ==
    /\ [](Negotiating => ~got_response)
    /\ [][(NegTakesFrame /\ Head(channel) = 1) =>
            /\ mpc' \in {"ctor_topics", "exit1"}
            /\ mpc' = "ctor_topics" => (error' = "none" /\ got_response')
            /\ mpc' = "exit1" => error' \in {"deserialize", "size", "direction"}]_vars

\* the first response was rejected for its sizes before the deadline, and a
\* second frame on topic 1 is left unread
C26_Witness ==
    /\ mpc = "exit1"
    /\ error = "size"
    /\ got_response
    /\ elapsed < dynamic_serial_mapping_ms
    /\ channel = <<1>>
    /\ topic_names_and_serialization = EmptyMap

====
